---- MODULE Spec2Model ----
(***************************************************************************)
(* Model of src/handler/get_extended_pubkey.c (Ledger Qtum app):           *)
(*   - is_path_safe_for_pubkey_export, the path-safety policy, as an       *)
(*     operator computed in the order of the C code;                       *)
(*   - handler_get_extended_pubkey, as a state machine with one action per *)
(*     statement group of the handler and the collaborators it calls.      *)
(*                                                                         *)
(* A uint32_t path component is the record [hi, lo]: hi is bit 31 (the     *)
(* hardened flag H = 0x80000000) and lo the low 31 bits, so that           *)
(*   raw = hi * 2^31 + lo,   raw & 0x7FFFFFFF = lo,   raw < H  <=> hi = 0. *)
(***************************************************************************)
EXTENDS Integers, Sequences, FiniteSets, TLC

VARIABLES
    pc,              \* position of the handler (or of the policy call)
    unlocked,        \* os_global_pin_is_validated() = BOLOS_UX_OK
    buf,             \* dc->read_buffer contents: [hdr, comps, tail]
    offset,          \* dc->read_buffer.offset: bytes consumed so far
    display,         \* local uint8_t display
    bip32_path_len,  \* local uint8_t bip32_path_len
    bip32_path,      \* local uint32_t bip32_path[]
    coin_types,      \* local uint32_t coin_types[]
    is_safe,         \* local bool is_safe
    serialized_pubkey_str,  \* output of the derivation service
    derive_calls,    \* calls made to get_serialized_extended_pubkey_at_path
    path_str,        \* local char path_str[]
    ui_calls,        \* calls made to ui_display_pubkey: [path, unsafe, key]
    ui_answer,       \* what ui_display_pubkey returned
    replies,         \* SEND_SW / SEND_RESPONSE performed: [sw, data]
    assigned,        \* the locals assigned so far (a C local has no value before)
    trace            \* the observable steps, in order

vars == <<pc, unlocked, buf, offset, display, bip32_path_len, bip32_path,
          coin_types, is_safe, serialized_pubkey_str, derive_calls, path_str,
          ui_calls, ui_answer, replies, assigned, trace>>

----------------------------------------------------------------------------
(* Bounds of the model *)

\* longest path drawn for the policy function
MaxPathLen == 5
\* longest path carried by a request to the handler
MaxReqLen == 4

(* Program constants *)

\* constants.h: the largest account index exported without confirmation
MAX_BIP44_ACCOUNT_RECOMMENDED == 100
\* common/bip32.h: the largest number of derivation steps of a path
MAX_BIP32_PATH_STEPS == 10
\* the application's coin types (build configuration)
BIP44_COIN_TYPE == 0
BIP44_COIN_TYPE_2 == 88

\* a reply without data; the content of a buffer not written yet
NoKey == << >>
NoText == ""

----------------------------------------------------------------------------
(* 32-bit components *)

\* n ^ H, for n < 2^31: the hardened component of index n
HX(n) == [hi |-> 1, lo |-> n]
\* the unhardened component of index n
UX(n) == [hi |-> 0, lo |-> n]
\* c & 0x7FFFFFFF
Mask(c) == c.lo
\* c < 0x80000000
BelowH(c) == c.hi = 0

----------------------------------------------------------------------------
(* is_path_safe_for_pubkey_export *)

\* bip32_path[i], with the C index
At(path, i) == path[i + 1]

\* a variant that whitelists every two-step path below 0' (the test of
\* bip32_path[1] left out)
IsLegacyException_AnyUnderZero(path, len) ==
    \/ /\ len = 4
       /\ At(path, 0) = HX(44)
       /\ At(path, 1) = HX(88)
       /\ At(path, 2) = HX(4541509)
       /\ At(path, 3) = HX(1112098098)
    \/ /\ len = 2
       /\ At(path, 0) = HX(0)
    \/ /\ len = 3
       /\ At(path, 0) = HX(20698)
       /\ At(path, 1) = HX(3053)
       /\ At(path, 2) = HX(12648430)

\* a variant that compares the last step of the third path without ^ H
IsLegacyException_NoH(path, len) ==
    \/ /\ len = 4
       /\ At(path, 0) = HX(44)
       /\ At(path, 1) = HX(88)
       /\ At(path, 2) = HX(4541509)
       /\ At(path, 3) = HX(1112098098)
    \/ /\ len = 2
       /\ At(path, 0) = HX(0)
       /\ At(path, 1) = HX(45342)
    \/ /\ len = 3
       /\ At(path, 0) = HX(20698)
       /\ At(path, 1) = HX(3053)
       /\ At(path, 2) = UX(12648430)

\* the three whitelisted paths, tested before every other rule
IsLegacyException(path, len) ==
    \/ /\ len = 4
       /\ At(path, 0) = HX(44)
       /\ At(path, 1) = HX(88)
       /\ At(path, 2) = HX(4541509)
       /\ At(path, 3) = HX(1112098098)
    \/ /\ len = 2
       /\ At(path, 0) = HX(0)
       /\ At(path, 1) = HX(45342)
    \/ /\ len = 3
       /\ At(path, 0) = HX(20698)
       /\ At(path, 1) = HX(3053)
       /\ At(path, 2) = HX(12648430)

\* a variant of the switch without case 86
hardened_der_len_No86(purpose) ==
    CASE purpose \in {44, 49, 84} -> 3
      [] purpose = 45 -> 3
      [] purpose = 48 -> 4
      [] OTHER -> 0

\* the switch on the purpose; 0 stands for the default branch (return false)
hardened_der_len(purpose) ==
    CASE purpose \in {44, 49, 84, 86} -> 3
      [] purpose = 45 -> 3
      [] purpose = 48 -> 4
      [] OTHER -> 0

\* first loop: no component below hardened_der_len is unhardened
HardenedPrefixOk(path, hdl) ==
    \A i \in 0..(hdl - 1) : ~BelowH(At(path, i))

\* a variant whose loop starts one step late
ExtraStepsUnhardened_StartsLate(path, len, hdl) ==
    \A i \in (hdl + 1)..(len - 1) : BelowH(At(path, i))

\* second loop: no component from hardened_der_len on is hardened
ExtraStepsUnhardened(path, len, hdl) ==
    \A i \in hdl..(len - 1) : BelowH(At(path, i))

\* third loop: the coin type is one of coin_types[0 .. coin_types_length-1]
coin_type_found(coin_type, coins, coin_types_length) ==
    \E i \in 0..(coin_types_length - 1) : coin_type = At(coins, i)

\* a variant with the bound off by one
AccountOk_OffByOne(account) == ~(account > MAX_BIP44_ACCOUNT_RECOMMENDED + 1)

\* the account is not too large
AccountOk(account) == ~(account > MAX_BIP44_ACCOUNT_RECOMMENDED)

\* a variant that lets script type 3 through
ScriptTypeOk_UpToThree(script_type) ==
    ~(script_type # 1 /\ script_type # 2 /\ script_type # 3)

\* BIP48: only the standardized script types
ScriptTypeOk(script_type) == ~(script_type # 1 /\ script_type # 2)

is_path_safe_for_pubkey_export(path, len, coins, coin_types_length) ==
    IF IsLegacyException(path, len) THEN TRUE
    ELSE IF len < 3 THEN FALSE
    ELSE LET purpose == Mask(At(path, 0))
             hdl == hardened_der_len(purpose)
         IN  IF hdl = 0 THEN FALSE
             ELSE IF len < hdl THEN FALSE
             ELSE IF ~HardenedPrefixOk(path, hdl) THEN FALSE
             ELSE IF ~ExtraStepsUnhardened(path, len, hdl) THEN FALSE
             ELSE IF ~coin_type_found(Mask(At(path, 1)), coins,
                                      coin_types_length) THEN FALSE
             ELSE IF ~AccountOk(Mask(At(path, 2))) THEN FALSE
             ELSE IF purpose = 48 /\ ~ScriptTypeOk(Mask(At(path, 3)))
                  THEN FALSE
             ELSE TRUE

----------------------------------------------------------------------------
(* The elements of bip32_path[] that is_path_safe_for_pubkey_export reads *)

\* bip32_path[i] as the function reads it: what lies beyond the path is not
\* a component of it, and is taken unhardened and zero
SafeAt(path, i) == IF i + 1 \in DOMAIN path THEN path[i + 1] ELSE UX(0)

\* a chain bip32_path[0] == lits[0] && bip32_path[1] == lits[1] && ...:
\* index i is read when every comparison before it succeeded
ChainReads(path, lits) ==
    {i \in 0..(Len(lits) - 1) :
        \A j \in 0..(i - 1) : SafeAt(path, j) = lits[j + 1]}

\* the reads of the three whitelist tests; each starts with a length test,
\* so at most one chain is entered
LegacyReads(path, len) ==
    IF len = 4
    THEN ChainReads(path, <<HX(44), HX(88), HX(4541509), HX(1112098098)>>)
    ELSE IF len = 2 THEN ChainReads(path, <<HX(0), HX(45342)>>)
    ELSE IF len = 3
    THEN ChainReads(path, <<HX(20698), HX(3053), HX(12648430)>>)
    ELSE {}

\* a variant without the test of the path against hardened_der_len
ShorterThanPrefix_Never(len, hdl) == FALSE

\* bip32_path_len < hardened_der_len
ShorterThanPrefix(len, hdl) == len < hdl

\* every index of bip32_path[] read by one call, along the path the call
\* takes through the function
ReadIndices(path, len, coins, coin_types_length) ==
    LET legacy == LegacyReads(path, len)
        purpose == Mask(SafeAt(path, 0))
        hdl == hardened_der_len(purpose)
        loop1 == {i \in 0..(hdl - 1) :
                     \A j \in 0..(i - 1) : ~BelowH(SafeAt(path, j))}
        ok1 == \A i \in 0..(hdl - 1) : ~BelowH(SafeAt(path, i))
        loop2 == {i \in hdl..(len - 1) :
                     \A j \in hdl..(i - 1) : BelowH(SafeAt(path, j))}
        ok2 == \A i \in hdl..(len - 1) : BelowH(SafeAt(path, i))
        found == coin_type_found(Mask(SafeAt(path, 1)), coins,
                                 coin_types_length)
    IN  IF IsLegacyException(path, len) THEN legacy
        ELSE IF len < 3 THEN legacy
        ELSE legacy \cup {0} \cup
             (IF hdl = 0 THEN {}
              ELSE IF ShorterThanPrefix(len, hdl) THEN {}
              ELSE loop1 \cup
                   (IF ~ok1 THEN {}
                    ELSE loop2 \cup
                         (IF ~ok2 THEN {}
                          ELSE {1} \cup
                               (IF ~found THEN {}
                                ELSE {2} \cup
                                     (IF AccountOk(Mask(SafeAt(path, 2)))
                                         /\ purpose = 48
                                      THEN {3} ELSE {})))))

----------------------------------------------------------------------------
(* The inputs drawn *)

\* the hardened and the unhardened components of a set of indices
Hardened(S) == {HX(n) : n \in S}
Unhardened(S) == {UX(n) : n \in S}

\* components drawn at each position of a path (C index i): every purpose
\* of the switch and some others, accepted and other coin types, accounts
\* around the maximum, script types, and the steps of the legacy paths
CompsAt(i) ==
    CASE i = 0 -> Hardened({44, 49, 84, 86, 45, 48, 0, 20698, 7})
                  \cup Unhardened({44, 48})
      [] i = 1 -> Hardened({0, 88, 3053, 45342}) \cup Unhardened({0, 45342})
      [] i = 2 -> Hardened({100, 101, 4541509, 12648430})
                  \cup Unhardened({100, 12648430})
      [] i = 3 -> Hardened({1, 2, 3, 1112098098}) \cup Unhardened({0, 1})
      [] OTHER -> Hardened({0}) \cup Unhardened({0})

\* components drawn at each position of a path sent to the handler
ReqCompsAt(i) ==
    CASE i = 0 -> Hardened({44, 48, 0}) \cup Unhardened({44})
      [] i = 1 -> Hardened({0, 45342}) \cup Unhardened({0})
      [] i = 2 -> Hardened({100, 101}) \cup Unhardened({100})
      [] i = 3 -> Hardened({1, 3}) \cup Unhardened({0, 1})
      [] OTHER -> Hardened({0}) \cup Unhardened({0})

\* the paths of n components, drawn for the handler or for the function
RECURSIVE PathsOfLen(_, _)
PathsOfLen(forHandler, n) ==
    IF n = 0 THEN {<< >>}
    ELSE {Append(p, c) :
              p \in PathsOfLen(forHandler, n - 1),
              c \in IF forHandler THEN ReqCompsAt(n - 1) ELSE CompsAt(n - 1)}

Paths == UNION {PathsOfLen(FALSE, n) : n \in 0..MaxPathLen}

ReqPaths == UNION {PathsOfLen(TRUE, n) : n \in 0..MaxReqLen}

\* the accepted coin types handed to the policy function
CoinArrays == {<< >>, <<0>>, <<0, 88>>, <<88, 0>>, <<3053, 45342>>}

----------------------------------------------------------------------------
(* The request buffer and the collaborators *)

\* display bytes drawn: the two legal values and an illegal one
DisplayBytes == {0, 1, 2}

\* path-length bytes drawn for a request that carries the components of p
LenBytes(p) ==
    {Len(p), Len(p) + 1, MAX_BIP32_PATH_STEPS, MAX_BIP32_PATH_STEPS + 1}

\* request buffers: a header of 0, 1 or 2 bytes, then whole 4-byte
\* components, then tail bytes of an incomplete component
Requests ==
    {[hdr |-> << >>, comps |-> << >>, tail |-> 0]}
    \cup {[hdr |-> <<d>>, comps |-> << >>, tail |-> 0] : d \in DisplayBytes}
    \cup UNION {UNION {{[hdr |-> <<d, n>>, comps |-> p, tail |-> t] :
                           d \in DisplayBytes, t \in {0, 2}} :
                       n \in LenBytes(p)} : p \in ReqPaths}

\* dc->read_buffer.size, in bytes
BufSize(b) == Len(b.hdr) + 4 * Len(b.comps) + b.tail

\* buffer_can_read(buffer, n) at offset off
CanRead(b, off, n) == off + n <= BufSize(b)

\* the byte buffer_read_u8 yields at offset off (a header byte)
ByteAt(b, off) == b.hdr[off + 1]

\* buffer_read_bip32_path: the first n components after the header
ReadPath(b, n) == SubSeq(b.comps, 1, n)

\* get_serialized_extended_pubkey_at_path: the serialized key of the path
Xpub(path) == <<"xpub", path>>

\* bip32_path_format: "index" or "index'" for each component, joined by "/"
RECURSIVE bip32_path_format(_, _)
bip32_path_format(path, len) ==
    IF len = 0 THEN ""
    ELSE LET c == At(path, len - 1)
             step == ToString(Mask(c)) \o (IF BelowH(c) THEN "" ELSE "'")
         IN  IF len = 1 THEN step
             ELSE bip32_path_format(path, len - 1) \o "/" \o step

MasterKeyLabel == "(Master key)"

\* the status words
SW_OK == "SW_OK"
SW_SECURITY_STATUS_NOT_SATISFIED == "SW_SECURITY_STATUS_NOT_SATISFIED"
SW_WRONG_DATA_LENGTH == "SW_WRONG_DATA_LENGTH"
SW_INCORRECT_DATA == "SW_INCORRECT_DATA"
SW_NOT_SUPPORTED == "SW_NOT_SUPPORTED"
SW_BAD_STATE == "SW_BAD_STATE"
SW_DENY == "SW_DENY"

ErrorStatuses ==
    {SW_SECURITY_STATUS_NOT_SATISFIED, SW_WRONG_DATA_LENGTH, SW_INCORRECT_DATA,
     SW_NOT_SUPPORTED, SW_BAD_STATE, SW_DENY}

\* SEND_SW(dc, sw): a status-only reply
SEND_SW(sw) == Append(replies, [sw |-> sw, data |-> NoKey])

\* SEND_RESPONSE(dc, data, len, sw)
SEND_RESPONSE(data, sw) == Append(replies, [sw |-> sw, data |-> data])

----------------------------------------------------------------------------
(* handler_get_extended_pubkey *)

\* a variant without the lock test
DeviceLocked_Never(u) == FALSE

\* os_global_pin_is_validated() != BOLOS_UX_OK
DeviceLocked(u) == ~u

\* a variant with the length bound off by one
HeaderInvalid_LenOffByOne(d, n) == d > 1 \/ n > MAX_BIP32_PATH_STEPS + 1

\* display > 1 || bip32_path_len > MAX_BIP32_PATH_STEPS
HeaderInvalid(d, n) == d > 1 \/ n > MAX_BIP32_PATH_STEPS

\* a variant without the gate
GateRejects_Never(safe, d) == FALSE

\* a variant with the negation of is_safe left out
GateRejects_NoNegation(safe, d) == safe /\ d = 0

\* !is_safe && !display
GateRejects(safe, d) == ~safe /\ d = 0

\* a variant that shows the confirmation whatever display is
DisplayRequested_Always(d) == TRUE

\* a variant with the test of display inverted
DisplayRequested_Inverted(d) == d = 0

\* the left operand of display && !ui_display_pubkey(...)
DisplayRequested(d) == d # 0

\* a variant that ignores what ui_display_pubkey returned
UiDenied_Ignored(answer) == FALSE

\* a variant with the negation left out
UiDenied_Inverted(answer) == answer

\* the right operand: the user did not approve
UiDenied(answer) == ~answer

Init ==
    /\ pc = "start"
    /\ unlocked \in BOOLEAN
    /\ buf \in Requests
    /\ offset = 0
    /\ display = 0
    /\ bip32_path_len = 0
    /\ bip32_path = << >>
    /\ coin_types = << >>
    /\ is_safe = FALSE
    /\ serialized_pubkey_str = NoKey
    /\ derive_calls = << >>
    /\ path_str = NoText
    /\ ui_calls = << >>
    /\ ui_answer = FALSE
    /\ replies = << >>
    /\ assigned = {}
    /\ trace = << >>

\* lines 129-133: the device must be unlocked
LockCheck ==
    /\ pc = "start"
    /\ trace' = Append(trace, "lock")
    /\ IF DeviceLocked(unlocked)
       THEN /\ replies' = SEND_SW(SW_SECURITY_STATUS_NOT_SATISFIED)
            /\ pc' = "done"
       ELSE /\ pc' = "decode_header"
            /\ UNCHANGED replies
    /\ UNCHANGED <<unlocked, buf, offset, display, bip32_path_len, bip32_path,
                   coin_types, is_safe, serialized_pubkey_str, derive_calls,
                   path_str, ui_calls, ui_answer, assigned>>

\* lines 135-141: the two header bytes; the second read is not attempted
\* when the first fails
DecodeHeader ==
    /\ pc = "decode_header"
    /\ trace' = Append(trace, "header")
    /\ IF ~CanRead(buf, offset, 1)
       THEN /\ replies' = SEND_SW(SW_WRONG_DATA_LENGTH)
            /\ pc' = "done"
            /\ UNCHANGED <<offset, display, bip32_path_len, assigned>>
       ELSE /\ display' = ByteAt(buf, offset)
            /\ IF ~CanRead(buf, offset + 1, 1)
               THEN /\ offset' = offset + 1
                    /\ assigned' = assigned \cup {"display"}
                    /\ replies' = SEND_SW(SW_WRONG_DATA_LENGTH)
                    /\ pc' = "done"
                    /\ UNCHANGED bip32_path_len
               ELSE /\ bip32_path_len' = ByteAt(buf, offset + 1)
                    /\ offset' = offset + 2
                    /\ assigned' = assigned \cup {"display", "bip32_path_len"}
                    /\ pc' = "validate_header"
                    /\ UNCHANGED replies
    /\ UNCHANGED <<unlocked, buf, bip32_path, coin_types, is_safe,
                   serialized_pubkey_str, derive_calls, path_str, ui_calls,
                   ui_answer>>

\* a variant of the header test without its return
ValidateHeader_NoReturn ==
    /\ pc = "validate_header"
    /\ trace' = Append(trace, "validate")
    /\ IF HeaderInvalid(display, bip32_path_len)
       THEN replies' = SEND_SW(SW_INCORRECT_DATA)
       ELSE UNCHANGED replies
    /\ pc' = "decode_path"
    /\ UNCHANGED <<unlocked, buf, offset, display, bip32_path_len, bip32_path,
                   coin_types, is_safe, serialized_pubkey_str, derive_calls,
                   path_str, ui_calls, ui_answer, assigned>>

\* lines 143-146
ValidateHeader ==
    /\ pc = "validate_header"
    /\ trace' = Append(trace, "validate")
    /\ IF HeaderInvalid(display, bip32_path_len)
       THEN /\ replies' = SEND_SW(SW_INCORRECT_DATA)
            /\ pc' = "done"
       ELSE /\ pc' = "decode_path"
            /\ UNCHANGED replies
    /\ UNCHANGED <<unlocked, buf, offset, display, bip32_path_len, bip32_path,
                   coin_types, is_safe, serialized_pubkey_str, derive_calls,
                   path_str, ui_calls, ui_answer, assigned>>

\* a variant that reports a short path with the status of the header test
DecodePath_WrongStatus ==
    /\ pc = "decode_path"
    /\ trace' = Append(trace, "path")
    /\ IF ~CanRead(buf, offset, 4 * bip32_path_len)
       THEN /\ replies' = SEND_SW(SW_INCORRECT_DATA)
            /\ pc' = "done"
            /\ UNCHANGED <<offset, bip32_path, assigned>>
       ELSE /\ bip32_path' = ReadPath(buf, bip32_path_len)
            /\ offset' = offset + 4 * bip32_path_len
            /\ assigned' = assigned \cup {"bip32_path"}
            /\ pc' = "policy"
            /\ UNCHANGED replies
    /\ UNCHANGED <<unlocked, buf, display, bip32_path_len, coin_types, is_safe,
                   serialized_pubkey_str, derive_calls, path_str, ui_calls,
                   ui_answer>>

\* lines 148-152
DecodePath ==
    /\ pc = "decode_path"
    /\ trace' = Append(trace, "path")
    /\ IF ~CanRead(buf, offset, 4 * bip32_path_len)
       THEN /\ replies' = SEND_SW(SW_WRONG_DATA_LENGTH)
            /\ pc' = "done"
            /\ UNCHANGED <<offset, bip32_path, assigned>>
       ELSE /\ bip32_path' = ReadPath(buf, bip32_path_len)
            /\ offset' = offset + 4 * bip32_path_len
            /\ assigned' = assigned \cup {"bip32_path"}
            /\ pc' = "policy"
            /\ UNCHANGED replies
    /\ UNCHANGED <<unlocked, buf, display, bip32_path_len, coin_types, is_safe,
                   serialized_pubkey_str, derive_calls, path_str, ui_calls,
                   ui_answer>>

\* lines 154-155
PolicyCheck ==
    /\ pc = "policy"
    /\ trace' = Append(trace, "policy")
    /\ coin_types' = <<BIP44_COIN_TYPE, BIP44_COIN_TYPE_2>>
    /\ is_safe' = is_path_safe_for_pubkey_export(bip32_path, bip32_path_len,
                                                 coin_types', 2)
    /\ assigned' = assigned \cup {"is_safe"}
    /\ pc' = "gate"
    /\ UNCHANGED <<unlocked, buf, offset, display, bip32_path_len, bip32_path,
                   serialized_pubkey_str, derive_calls, path_str, ui_calls,
                   ui_answer, replies>>

\* a variant of the gate without its return
Gate_NoReturn ==
    /\ pc = "gate"
    /\ IF GateRejects(is_safe, display)
       THEN replies' = SEND_SW(SW_NOT_SUPPORTED)
       ELSE UNCHANGED replies
    /\ pc' = "derive"
    /\ UNCHANGED <<unlocked, buf, offset, display, bip32_path_len, bip32_path,
                   coin_types, is_safe, serialized_pubkey_str, derive_calls,
                   path_str, ui_calls, ui_answer, assigned, trace>>

\* lines 157-160
Gate ==
    /\ pc = "gate"
    /\ IF GateRejects(is_safe, display)
       THEN /\ replies' = SEND_SW(SW_NOT_SUPPORTED)
            /\ pc' = "done"
       ELSE /\ pc' = "derive"
            /\ UNCHANGED replies
    /\ UNCHANGED <<unlocked, buf, offset, display, bip32_path_len, bip32_path,
                   coin_types, is_safe, serialized_pubkey_str, derive_calls,
                   path_str, ui_calls, ui_answer, assigned, trace>>

\* a variant that does not test the result of the derivation service
Derive_FailureUnchecked ==
    /\ pc = "derive"
    /\ trace' = Append(trace, "derive")
    /\ derive_calls' = Append(derive_calls, bip32_path)
    /\ \E ok \in BOOLEAN :
          IF ok
          THEN /\ serialized_pubkey_str' = Xpub(bip32_path)
               /\ assigned' = assigned \cup {"serialized_pubkey_str"}
          ELSE UNCHANGED <<serialized_pubkey_str, assigned>>
    /\ pc' = "format"
    /\ UNCHANGED <<unlocked, buf, offset, display, bip32_path_len, bip32_path,
                   coin_types, is_safe, path_str, ui_calls, ui_answer,
                   replies>>

\* lines 162-172: the derivation service succeeds or reports -1
Derive ==
    /\ pc = "derive"
    /\ trace' = Append(trace, "derive")
    /\ derive_calls' = Append(derive_calls, bip32_path)
    /\ \E ok \in BOOLEAN :
          IF ok
          THEN /\ serialized_pubkey_str' = Xpub(bip32_path)
               /\ assigned' = assigned \cup {"serialized_pubkey_str"}
               /\ pc' = "format"
               /\ UNCHANGED replies
          ELSE /\ replies' = SEND_SW(SW_BAD_STATE)
               /\ pc' = "done"
               /\ UNCHANGED <<serialized_pubkey_str, assigned>>
    /\ UNCHANGED <<unlocked, buf, offset, display, bip32_path_len, bip32_path,
                   coin_types, is_safe, path_str, ui_calls, ui_answer>>

\* a variant that formats the path whatever its length
FormatPath_Always ==
    /\ pc = "format"
    /\ path_str' = bip32_path_format(bip32_path, bip32_path_len)
    /\ assigned' = assigned \cup {"path_str"}
    /\ pc' = "confirm"
    /\ UNCHANGED <<unlocked, buf, offset, display, bip32_path_len, bip32_path,
                   coin_types, is_safe, serialized_pubkey_str, derive_calls,
                   ui_calls, ui_answer, replies, trace>>

\* lines 174-177
FormatPath ==
    /\ pc = "format"
    /\ path_str' = IF bip32_path_len > 0
                   THEN bip32_path_format(bip32_path, bip32_path_len)
                   ELSE MasterKeyLabel
    /\ assigned' = assigned \cup {"path_str"}
    /\ pc' = "confirm"
    /\ UNCHANGED <<unlocked, buf, offset, display, bip32_path_len, bip32_path,
                   coin_types, is_safe, serialized_pubkey_str, derive_calls,
                   ui_calls, ui_answer, replies, trace>>

\* line 179, the call: ui_display_pubkey is entered only when display is set
Confirm ==
    /\ pc = "confirm"
    /\ IF DisplayRequested(display)
       THEN /\ ui_calls' = Append(ui_calls, [path |-> path_str,
                                             unsafe |-> ~is_safe,
                                             key |-> serialized_pubkey_str])
            /\ trace' = Append(trace, "confirm")
            /\ pc' = "wait_ui"
       ELSE /\ pc' = "respond"
            /\ UNCHANGED <<ui_calls, trace>>
    /\ UNCHANGED <<unlocked, buf, offset, display, bip32_path_len, bip32_path,
                   coin_types, is_safe, serialized_pubkey_str, derive_calls,
                   path_str, ui_answer, replies, assigned>>

\* lines 179-182, the return: the user approves or denies
UiReturn ==
    /\ pc = "wait_ui"
    /\ \E answer \in BOOLEAN :
          /\ ui_answer' = answer
          /\ IF UiDenied(answer)
             THEN /\ replies' = SEND_SW(SW_DENY)
                  /\ pc' = "done"
             ELSE /\ pc' = "respond"
                  /\ UNCHANGED replies
    /\ assigned' = assigned \cup {"ui_answer"}
    /\ UNCHANGED <<unlocked, buf, offset, display, bip32_path_len, bip32_path,
                   coin_types, is_safe, serialized_pubkey_str, derive_calls,
                   path_str, ui_calls, trace>>

\* line 184
Respond ==
    /\ pc = "respond"
    /\ replies' = SEND_RESPONSE(serialized_pubkey_str, SW_OK)
    /\ trace' = Append(trace, "reply")
    /\ pc' = "done"
    /\ UNCHANGED <<unlocked, buf, offset, display, bip32_path_len, bip32_path,
                   coin_types, is_safe, serialized_pubkey_str, derive_calls,
                   path_str, ui_calls, ui_answer, assigned>>

Next ==
    \/ LockCheck
    \/ DecodeHeader
    \/ ValidateHeader
    \/ DecodePath
    \/ PolicyCheck
    \/ Gate
    \/ Derive
    \/ FormatPath
    \/ Confirm
    \/ UiReturn
    \/ Respond

Spec == Init /\ [][Next]_vars

----------------------------------------------------------------------------
(* The policy function on its own: every path and coin-type array drawn *)

InitPolicy ==
    /\ pc = "policy_call"
    /\ unlocked = TRUE
    /\ buf = [hdr |-> << >>, comps |-> << >>, tail |-> 0]
    /\ offset = 0
    /\ display = 0
    /\ bip32_path \in Paths
    /\ bip32_path_len = Len(bip32_path)
    /\ coin_types \in CoinArrays
    /\ is_safe = FALSE
    /\ serialized_pubkey_str = NoKey
    /\ derive_calls = << >>
    /\ path_str = NoText
    /\ ui_calls = << >>
    /\ ui_answer = FALSE
    /\ replies = << >>
    /\ assigned = {"bip32_path", "bip32_path_len", "coin_types"}
    /\ trace = << >>

\* lines 32-122: one call of is_path_safe_for_pubkey_export
PolicyEval ==
    /\ pc = "policy_call"
    /\ is_safe' = is_path_safe_for_pubkey_export(bip32_path, bip32_path_len,
                                                 coin_types, Len(coin_types))
    /\ assigned' = assigned \cup {"is_safe"}
    /\ pc' = "policy_ret"
    /\ UNCHANGED <<unlocked, buf, offset, display, bip32_path_len, bip32_path,
                   coin_types, serialized_pubkey_str, derive_calls, path_str,
                   ui_calls, ui_answer, replies, trace>>

NextPolicy == PolicyEval

PolicySpec == InitPolicy /\ [][NextPolicy]_vars

----------------------------------------------------------------------------
(* Properties of the handler (specification Spec) *)

\* some reply carried key material
KeySent == \E i \in 1..Len(replies) : replies[i].data # NoKey

\* the policy classified the path of this run unsafe
ClassifiedUnsafe == "is_safe" \in assigned /\ ~is_safe

\* the user approved in the confirmation step
Approved == "ui_answer" \in assigned /\ ui_answer

\* the text the confirmation screen shows for a path
PathText(path) ==
    IF Len(path) = 0 THEN MasterKeyLabel
    ELSE bip32_path_format(path, Len(path))

\* the request read from the buffer is well formed: both header bytes,
\* display 0 or 1, a legal length, and all the components announced
WellFormed(b) ==
    /\ Len(b.hdr) = 2
    /\ b.hdr[1] \in {0, 1}
    /\ b.hdr[2] <= MAX_BIP32_PATH_STEPS
    /\ 2 + 4 * b.hdr[2] <= BufSize(b)

\* the path a well-formed request asks for
RequestedPath(b) == SubSeq(b.comps, 1, b.hdr[2])

\* C1: on a path classified unsafe, the key is transmitted only if the
\* confirmation screen was shown for that path and that key with the unsafe
\* flag set and the user approved; otherwise no key material is transmitted.
C1_UnsafeKeyOnlyAfterApproval ==
    (ClassifiedUnsafe /\ KeySent) =>
        /\ Approved
        /\ Len(ui_calls) = 1
        /\ ui_calls[1].unsafe = TRUE
        /\ ui_calls[1].path = PathText(bip32_path)
        /\ ui_calls[1].key = Xpub(bip32_path)
        /\ replies = <<[sw |-> SW_OK, data |-> ui_calls[1].key]>>

C1_Witness ==
    /\ pc = "done"
    /\ ClassifiedUnsafe
    /\ KeySent
    /\ Approved
    /\ Len(bip32_path) = 3

\* C2 as claimed: on a path classified unsafe the derivation service is not
\* called without a user approval for that path.
C2_DeriveOnlyAfterApproval ==
    (ClassifiedUnsafe /\ derive_calls # << >>) => Approved

\* C2 as amended: on a path classified unsafe the derivation service is
\* called only when the caller asked for the confirmation flow (display = 1),
\* once and for that path; the call precedes the confirmation, and the
\* derived key is transmitted only after the user approved.
C2_UnsafeDeriveOnlyWithDisplay ==
    (ClassifiedUnsafe /\ derive_calls # << >>) =>
        /\ display = 1
        /\ derive_calls = <<bip32_path>>
        /\ (ui_calls # << >> =>
               \E i, j \in 1..Len(trace) :
                   i < j /\ trace[i] = "derive" /\ trace[j] = "confirm")
        /\ (KeySent => Approved)

C2_Witness ==
    /\ pc = "wait_ui"
    /\ ClassifiedUnsafe
    /\ derive_calls = <<bip32_path>>
    /\ "ui_answer" \notin assigned

\* C3: a well-formed request with display = 0 on an unlocked device whose
\* path is unsafe is answered "not supported"; no key material is sent and
\* neither the derivation service nor the confirmation screen is invoked.
C3_GateRejectsSilentUnsafe ==
    ( /\ unlocked
      /\ WellFormed(buf)
      /\ buf.hdr[1] = 0
      /\ ~is_path_safe_for_pubkey_export(
              RequestedPath(buf), buf.hdr[2],
              <<BIP44_COIN_TYPE, BIP44_COIN_TYPE_2>>, 2) ) =>
        /\ derive_calls = << >>
        /\ ui_calls = << >>
        /\ ~KeySent
        /\ (pc = "done" => replies = <<[sw |-> SW_NOT_SUPPORTED, data |-> NoKey]>>)
        /\ (replies # << >> => pc = "done")

C3_Witness ==
    /\ pc = "done"
    /\ unlocked
    /\ display = 0
    /\ ClassifiedUnsafe
    /\ bip32_path = <<HX(44), HX(0), HX(101)>>
    /\ replies = <<[sw |-> SW_NOT_SUPPORTED, data |-> NoKey]>>

\* C4: an invocation performs exactly one terminal action, a status-only
\* reply or the key with OK, never two and none only while it still runs;
\* a reply with an error status carries no key material.
C4_ExactlyOneReply ==
    /\ Len(replies) <= 1
    /\ (pc = "done") <=> (Len(replies) = 1)
    /\ \A i \in 1..Len(replies) :
          /\ replies[i].sw \in ErrorStatuses \cup {SW_OK}
          /\ (replies[i].sw \in ErrorStatuses => replies[i].data = NoKey)
          /\ (replies[i].sw = SW_OK => replies[i].data = Xpub(bip32_path))

C4_Witness ==
    /\ pc = "done"
    /\ Len(replies) = 1
    /\ replies[1].sw = SW_DENY
    /\ serialized_pubkey_str # NoKey

\* C5: on a locked device the reply is "security status not satisfied"
\* whatever the request; no byte of the buffer is read, the policy is not
\* evaluated, and neither derivation nor confirmation is invoked.
C5_LockedRejectsFirst ==
    ~unlocked =>
        /\ offset = 0
        /\ assigned = {}
        /\ \A i \in 1..Len(trace) : trace[i] = "lock"
        /\ derive_calls = << >>
        /\ ui_calls = << >>
        /\ (pc = "done" =>
               replies = <<[sw |-> SW_SECURITY_STATUS_NOT_SATISFIED,
                            data |-> NoKey]>>)
        /\ pc \in {"start", "done"}

C5_Witness ==
    /\ ~unlocked
    /\ pc = "done"
    /\ WellFormed(buf)
    /\ buf.hdr[1] = 1
    /\ Len(buf.comps) = 3

----------------------------------------------------------------------------
(* Properties of the policy function (specification PolicySpec) *)

Legacy44 == <<HX(44), HX(88), HX(4541509), HX(1112098098)>>
Legacy0 == <<HX(0), HX(45342)>>
Legacy20698 == <<HX(20698), HX(3053), HX(12648430)>>

LegacyLiterals == {Legacy44, Legacy0, Legacy20698}

\* the call returned
Returned == pc = "policy_ret"

\* the accepted currency identifiers, as a set
Accepted == {coin_types[i] : i \in 1..Len(coin_types)}

AcceptedPurposes == {44, 49, 84, 86, 45, 48}

\* components 1..n of the path are hardened and the later ones are not
ExactlyFirstHardened(path, n) ==
    /\ Len(path) >= n
    /\ \A i \in 1..Len(path) : (path[i].hi = 1) <=> (i <= n)

\* C6 as claimed: every path of length 0, 1 or 2 is unsafe, whatever the
\* accepted currency identifiers.
C6_ShortPathUnsafe ==
    (Returned /\ Len(bip32_path) < 3) => is_safe = FALSE

\* C6 as amended: every path of length 0, 1 or 2 other than the legacy
\* exception 0'/45342' is unsafe, whatever the accepted currency
\* identifiers; 0'/45342' itself, of length 2, is safe.
C6_ShortPathUnsafeButLegacy ==
    (Returned /\ Len(bip32_path) < 3) =>
        (is_safe <=> bip32_path = Legacy0)

C6_Witness ==
    /\ Returned
    /\ Len(bip32_path) = 2
    /\ bip32_path[1] = HX(0)
    /\ bip32_path[2] = UX(45342)
    /\ is_safe = FALSE

\* C7 as claimed: with an accepted purpose, the path is unsafe whenever its
\* coin type is not an accepted one, and whenever its account exceeds
\* MAX_BIP44_ACCOUNT_RECOMMENDED.
C7_CoinAndAccountChecked ==
    (Returned /\ Len(bip32_path) >= 1
              /\ bip32_path[1].lo \in AcceptedPurposes) =>
        /\ (Len(bip32_path) >= 2 /\ bip32_path[2].lo \notin Accepted)
               => is_safe = FALSE
        /\ (Len(bip32_path) >= 3
            /\ bip32_path[3].lo > MAX_BIP44_ACCOUNT_RECOMMENDED)
               => is_safe = FALSE

\* C7 as amended: the same for every path other than the legacy exception
\* 44'/88'/4541509'/1112098098', which is safe whatever the accepted coin
\* types and although its account exceeds the maximum.
C7_CoinAndAccountCheckedButLegacy ==
    (Returned /\ Len(bip32_path) >= 1
              /\ bip32_path[1].lo \in AcceptedPurposes) =>
        IF bip32_path = Legacy44 THEN is_safe = TRUE
        ELSE /\ (Len(bip32_path) >= 2 /\ bip32_path[2].lo \notin Accepted)
                    => is_safe = FALSE
             /\ (Len(bip32_path) >= 3
                 /\ bip32_path[3].lo > MAX_BIP44_ACCOUNT_RECOMMENDED)
                    => is_safe = FALSE

C7_Witness ==
    /\ Returned
    /\ bip32_path = <<HX(44), HX(0), HX(101)>>
    /\ coin_types = <<0>>
    /\ is_safe = FALSE

\* C8 as claimed: with purpose 44, 49, 84, 86 or 45 the path is safe only
\* if exactly its first 3 components are hardened, and with purpose 48 only
\* if exactly its first 4 are.
C8_HardenedShape ==
    (Returned /\ Len(bip32_path) >= 1 /\ is_safe = TRUE) =>
        /\ bip32_path[1].lo \in {44, 49, 84, 86, 45}
               => ExactlyFirstHardened(bip32_path, 3)
        /\ bip32_path[1].lo = 48 => ExactlyFirstHardened(bip32_path, 4)

\* C8 as amended: the same for every path other than the legacy exception
\* 44'/88'/4541509'/1112098098', which has purpose 44, four hardened
\* components, and is safe.
C8_HardenedShapeButLegacy ==
    (Returned /\ Len(bip32_path) >= 1 /\ is_safe = TRUE
              /\ bip32_path # Legacy44) =>
        /\ bip32_path[1].lo \in {44, 49, 84, 86, 45}
               => ExactlyFirstHardened(bip32_path, 3)
        /\ bip32_path[1].lo = 48 => ExactlyFirstHardened(bip32_path, 4)

C8_Witness ==
    /\ Returned
    /\ is_safe = TRUE
    /\ bip32_path[1].lo = 48
    /\ Len(bip32_path) = 5

\* C9: each of the three legacy exceptions is safe, whatever the accepted
\* currency identifiers, the empty set included.
C9_LegacyAlwaysSafe ==
    (Returned /\ bip32_path \in LegacyLiterals) => is_safe = TRUE

C9_Witness ==
    /\ Returned
    /\ bip32_path = Legacy20698
    /\ coin_types = << >>
    /\ is_safe = TRUE

\* C10: with purpose 48 the path is safe only if it has a fourth component
\* whose masked value is 1 or 2; a purpose-48 path of length 3 is unsafe.
C10_Bip48ScriptType ==
    (Returned /\ Len(bip32_path) >= 1 /\ bip32_path[1].lo = 48
              /\ is_safe = TRUE) =>
        /\ Len(bip32_path) >= 4
        /\ bip32_path[4].lo \in {1, 2}

C10_Witness ==
    /\ Returned
    /\ bip32_path = <<HX(48), HX(0), HX(100), HX(3)>>
    /\ coin_types = <<0>>
    /\ is_safe = FALSE


\* the classifier the function is compared with: a legacy literal, or a
\* path of an accepted purpose with exactly the purpose's prefix hardened,
\* an accepted coin type, an account within the maximum and, for purpose
\* 48, script type 1 or 2
ReferenceSafe(path, accepted) ==
    \/ path \in LegacyLiterals
    \/ /\ Len(path) >= 3
       /\ path[1].lo \in AcceptedPurposes
       /\ ExactlyFirstHardened(path, IF path[1].lo = 48 THEN 4 ELSE 3)
       /\ path[2].lo \in accepted
       /\ path[3].lo <= MAX_BIP44_ACCOUNT_RECOMMENDED
       /\ (path[1].lo = 48 => path[4].lo \in {1, 2})

\* C11: the function returns true exactly for the paths the reference
\* classifier accepts; in particular a path of any other purpose that is
\* not a legacy literal is unsafe.
C11_AgreesWithReference ==
    Returned =>
        /\ is_safe <=> ReferenceSafe(bip32_path, Accepted)
        /\ ( /\ Len(bip32_path) >= 1
             /\ bip32_path[1].lo \notin AcceptedPurposes
             /\ bip32_path \notin LegacyLiterals ) => ~is_safe

C11_Witness ==
    /\ Returned
    /\ is_safe
    /\ Len(bip32_path) = 5
    /\ bip32_path[1] = HX(86)
    /\ coin_types = <<0, 88>>


----------------------------------------------------------------------------
(* Further properties of the handler (specification Spec) *)

\* the steps taken so far, as a set
Steps == {trace[i] : i \in 1..Len(trace)}

\* both header bytes are present and one of them is out of range
BadHeader(b) ==
    /\ Len(b.hdr) = 2
    /\ (b.hdr[1] \notin {0, 1} \/ b.hdr[2] > MAX_BIP32_PATH_STEPS)

\* C12: on an unlocked device, a request whose display byte is not 0 or 1
\* or whose path-length byte exceeds MAX_BIP32_PATH_STEPS is answered
\* "incorrect data"; no byte after the header is read, and neither the
\* policy nor the derivation service nor the confirmation is reached.
C12_BadHeaderIncorrectData ==
    (unlocked /\ BadHeader(buf)) =>
        /\ offset <= 2
        /\ "bip32_path" \notin assigned
        /\ Steps \subseteq {"lock", "header", "validate"}
        /\ derive_calls = << >>
        /\ ui_calls = << >>
        /\ (pc = "done" =>
               /\ replies = <<[sw |-> SW_INCORRECT_DATA, data |-> NoKey]>>
               /\ offset = 2)
        /\ (replies # << >> => pc = "done")

C12_Witness ==
    /\ unlocked
    /\ pc = "done"
    /\ buf.hdr = <<1, MAX_BIP32_PATH_STEPS + 1>>
    /\ Len(buf.comps) = 3
    /\ replies = <<[sw |-> SW_INCORRECT_DATA, data |-> NoKey]>>


\* fewer than two header bytes, or a valid header followed by fewer
\* components than it announces
ShortRequest(b) ==
    \/ Len(b.hdr) < 2
    \/ /\ Len(b.hdr) = 2
       /\ b.hdr[1] \in {0, 1}
       /\ b.hdr[2] <= MAX_BIP32_PATH_STEPS
       /\ BufSize(b) < 2 + 4 * b.hdr[2]

\* C13: on an unlocked device a request with fewer than 2 header bytes,
\* whatever its display byte, and a request whose valid header announces
\* more components than follow, are answered "wrong data length"; the
\* policy is not evaluated and neither derivation nor confirmation occurs.
C13_ShortRequestWrongLength ==
    (unlocked /\ ShortRequest(buf)) =>
        /\ "is_safe" \notin assigned
        /\ "bip32_path" \notin assigned
        /\ Steps \subseteq {"lock", "header", "validate", "path"}
        /\ derive_calls = << >>
        /\ ui_calls = << >>
        /\ (pc = "done" =>
               replies = <<[sw |-> SW_WRONG_DATA_LENGTH, data |-> NoKey]>>)
        /\ (replies # << >> => pc = "done")

\* a path cut in the middle of its last component
C13_Witness ==
    /\ unlocked
    /\ pc = "done"
    /\ Len(buf.hdr) = 2
    /\ buf.hdr[2] = 3
    /\ Len(buf.comps) = 2
    /\ buf.tail = 2
    /\ "path" \in Steps
    /\ replies = <<[sw |-> SW_WRONG_DATA_LENGTH, data |-> NoKey]>>


\* the derivation service was called and returned a key
DeriveSucceeded == "serialized_pubkey_str" \in assigned

\* the derivation service was called and reported failure
DeriveFailed == derive_calls # << >> /\ ~DeriveSucceeded

\* the reply that carries the key of the requested path
KeyReply(b) == <<[sw |-> SW_OK, data |-> Xpub(RequestedPath(b))]>>

\* C14: for a well-formed request with display = 1 on an unlocked device
\* whose derivation succeeds, safe or not, the confirmation is shown exactly
\* once with the derived key; approval leads to the key with OK, denial to
\* "denied" without key material.
C14_DisplayFollowsAnswer ==
    (unlocked /\ WellFormed(buf) /\ buf.hdr[1] = 1 /\ DeriveSucceeded) =>
        /\ Len(ui_calls) <= 1
        /\ (pc \in {"wait_ui", "respond", "done"} =>
               /\ Len(ui_calls) = 1
               /\ ui_calls[1].key = Xpub(RequestedPath(buf)))
        /\ (pc = "respond" => Approved)
        /\ (pc = "done" =>
               /\ "ui_answer" \in assigned
               /\ replies = IF ui_answer
                            THEN KeyReply(buf)
                            ELSE <<[sw |-> SW_DENY, data |-> NoKey]>>)
        /\ (replies # << >> => pc = "done")

\* a safe path, shown and denied
C14_Witness ==
    /\ unlocked
    /\ pc = "done"
    /\ display = 1
    /\ "is_safe" \in assigned
    /\ is_safe
    /\ Len(ui_calls) = 1
    /\ "ui_answer" \in assigned
    /\ ~ui_answer
    /\ replies = <<[sw |-> SW_DENY, data |-> NoKey]>>

\* C15: for a well-formed request with display = 0 on an unlocked device
\* whose path is safe and whose derivation succeeds, the reply is the
\* serialized key with OK, and the confirmation is never invoked.
C15_SilentSafeExport ==
    ( /\ unlocked
      /\ WellFormed(buf)
      /\ buf.hdr[1] = 0
      /\ is_path_safe_for_pubkey_export(
             RequestedPath(buf), buf.hdr[2],
             <<BIP44_COIN_TYPE, BIP44_COIN_TYPE_2>>, 2)
      /\ DeriveSucceeded ) =>
        /\ ui_calls = << >>
        /\ "ui_answer" \notin assigned
        /\ pc # "wait_ui"
        /\ (pc = "done" => replies = KeyReply(buf))
        /\ (replies # << >> => pc = "done")

C15_Witness ==
    /\ unlocked
    /\ pc = "done"
    /\ display = 0
    /\ bip32_path = <<HX(44), HX(0), HX(100)>>
    /\ ui_calls = << >>
    /\ replies = <<[sw |-> SW_OK, data |-> Xpub(bip32_path)]>>

\* C16: when the derivation service reports failure the reply is "bad
\* state", no key material is transmitted and the confirmation is never
\* shown, whatever the display flag and the policy verdict.
C16_DeriveFailureBadState ==
    DeriveFailed =>
        /\ pc = "done"
        /\ replies = <<[sw |-> SW_BAD_STATE, data |-> NoKey]>>
        /\ ui_calls = << >>
        /\ "path_str" \notin assigned

C16_Witness ==
    /\ DeriveFailed
    /\ pc = "done"
    /\ display = 1
    /\ ClassifiedUnsafe
    /\ replies = <<[sw |-> SW_BAD_STATE, data |-> NoKey]>>


\* C17: whenever the confirmation is shown, its unsafe flag is the negation
\* of the policy verdict for the path of the request; its path text is the
\* label "(Master key)" for the empty path, which the formatter never
\* rewrote, and the formatter's rendering otherwise; the empty path is
\* shown as "(Master key)" with the unsafe flag set.
C17_ConfirmationArguments ==
    \A i \in 1..Len(ui_calls) :
        /\ ui_calls[i].unsafe = ~is_safe
        /\ is_safe = is_path_safe_for_pubkey_export(
                         bip32_path, Len(bip32_path),
                         <<BIP44_COIN_TYPE, BIP44_COIN_TYPE_2>>, 2)
        /\ bip32_path = RequestedPath(buf)
        /\ IF Len(bip32_path) = 0
           THEN /\ ui_calls[i].path = MasterKeyLabel
                /\ ui_calls[i].path # bip32_path_format(bip32_path, 0)
                /\ ui_calls[i].unsafe = TRUE
           ELSE ui_calls[i].path
                    = bip32_path_format(bip32_path, Len(bip32_path))

\* the master key, shown
C17_Witness ==
    /\ Len(ui_calls) = 1
    /\ "bip32_path" \in assigned
    /\ bip32_path = << >>
    /\ ui_calls[1].path = "(Master key)"
    /\ ui_calls[1].unsafe = TRUE

\* a safe path, shown with its rendering and the flag clear
C17_WitnessSafe ==
    /\ Len(ui_calls) = 1
    /\ bip32_path = <<HX(48), HX(0), HX(100), HX(1)>>
    /\ ui_calls[1].path = "48'/0'/100'/1'"
    /\ ui_calls[1].unsafe = FALSE


\* the place of each observable step in the order of the handler
Rank(step) ==
    CASE step = "lock" -> 1
      [] step = "header" -> 2
      [] step = "validate" -> 3
      [] step = "path" -> 4
      [] step = "policy" -> 5
      [] step = "derive" -> 6
      [] step = "confirm" -> 7
      [] step = "reply" -> 8

\* the steps after which each status is sent
LastStepOf(sw) ==
    CASE sw = SW_SECURITY_STATUS_NOT_SATISFIED -> {"lock"}
      [] sw = SW_WRONG_DATA_LENGTH -> {"header", "path"}
      [] sw = SW_INCORRECT_DATA -> {"validate"}
      [] sw = SW_NOT_SUPPORTED -> {"policy"}
      [] sw = SW_BAD_STATE -> {"derive"}
      [] sw = SW_DENY -> {"confirm"}
      [] sw = SW_OK -> {"reply"}

\* C18: the observable steps occur in the order lock query, header decode,
\* header validation, path decode, policy check, derivation, confirmation,
\* reply, each at most once and none skipped but the confirmation; the
\* step that fails is the last one, its status is the only reply, and the
\* invocation is over; derivation follows the policy gate and the
\* confirmation follows derivation.
C18_StepOrder ==
    /\ (trace # << >> => trace[1] = "lock")
    /\ \A i \in 1..(Len(trace) - 1) :
          \/ Rank(trace[i + 1]) = Rank(trace[i]) + 1
          \/ (trace[i] = "derive" /\ trace[i + 1] = "reply")
    /\ Len(derive_calls) = Cardinality({i \in 1..Len(trace) : trace[i] = "derive"})
    /\ Len(ui_calls) = Cardinality({i \in 1..Len(trace) : trace[i] = "confirm"})
    /\ (derive_calls # << >> =>
           /\ "is_safe" \in assigned
           /\ ~GateRejects(is_safe, display))
    /\ (ui_calls # << >> => DeriveSucceeded)
    /\ (replies # << >> =>
           /\ pc = "done"
           /\ Len(replies) = 1
           /\ trace[Len(trace)] \in LastStepOf(replies[1].sw))

C18_Witness ==
    /\ pc = "done"
    /\ trace = <<"lock", "header", "validate", "path", "policy", "derive",
                 "confirm", "reply">>


----------------------------------------------------------------------------
(* Further properties of the policy function (specification PolicySpec) *)

\* C19: the function is total: for every path of length 0 to
\* MAX_BIP32_PATH_STEPS and every component value, each index of
\* bip32_path[] it reads is below the path length (0..2 only with length
\* >= 3 or under a matching length test, 3 only with length >= 4), the call
\* returns a verdict, and the verdict is the same for every array that
\* holds the same set of accepted coin types.
C19_TotalAndInBounds ==
    LET reads == ReadIndices(bip32_path, bip32_path_len, coin_types,
                             Len(coin_types))
    IN  /\ bip32_path_len = Len(bip32_path)
        /\ bip32_path_len <= MAX_BIP32_PATH_STEPS
        /\ \A i \in reads : 0 <= i /\ i < bip32_path_len
        /\ (3 \in reads => bip32_path_len >= 4)
        /\ (pc = "policy_call" => ENABLED PolicyEval)
        /\ (Returned =>
               /\ is_safe \in BOOLEAN
               /\ \A arr \in CoinArrays :
                     {arr[i] : i \in 1..Len(arr)} = Accepted =>
                         is_safe = is_path_safe_for_pubkey_export(
                                       bip32_path, bip32_path_len, arr,
                                       Len(arr)))

\* purpose 48 on a path of three hardened steps: only bip32_path[0] is
\* read, the loop over the hardened prefix is not entered
C19_Witness ==
    /\ Returned
    /\ bip32_path = <<HX(48), HX(0), HX(100)>>
    /\ coin_types = <<88, 0>>
    /\ ReadIndices(bip32_path, bip32_path_len, coin_types, 2) = {0}
    /\ ~is_safe

\* purpose 48 on a safe path of five steps: every index is read
C19_WitnessAll ==
    /\ Returned
    /\ bip32_path = <<HX(48), HX(0), HX(100), HX(2), UX(0)>>
    /\ coin_types = <<88, 0>>
    /\ ReadIndices(bip32_path, bip32_path_len, coin_types, 2) = {0, 1, 2, 3, 4}
    /\ is_safe


----------------------------------------------------------------------------
(* Termination of the handler (specification FairSpec) *)

\* the steps the handler takes by itself
HandlerStep ==
    \/ LockCheck
    \/ DecodeHeader
    \/ ValidateHeader
    \/ DecodePath
    \/ PolicyCheck
    \/ Gate
    \/ Derive
    \/ FormatPath
    \/ Confirm
    \/ Respond

\* the handler is sequential code that runs to its next statement, and the
\* confirmation collaborator eventually returns an answer
FairSpec == Spec /\ WF_vars(HandlerStep) /\ WF_vars(UiReturn)

\* C20: every invocation reaches its terminal reply, given that the
\* confirmation eventually returns; the handler waits nowhere but in the
\* confirmation (elsewhere its next step is always possible, there only the
\* answer moves it on), which is reached only with display = 1 and after a
\* successful derivation.
C20_TerminatesWaitingOnlyForUser ==
    /\ <>(pc = "done" /\ Len(replies) = 1)
    /\ [](pc \notin {"done", "wait_ui"} => ENABLED HandlerStep)
    /\ [](pc = "wait_ui" =>
             /\ ~ENABLED HandlerStep
             /\ ENABLED UiReturn
             /\ display = 1
             /\ DeriveSucceeded)
    /\ [](pc = "done" => ~ENABLED Next)

C20_Witness ==
    /\ pc = "wait_ui"
    /\ display = 1
    /\ DeriveSucceeded
    /\ replies = << >>

====
